---- MODULE Spec2Model ----
(***************************************************************************)
(* Model of bliss/core/api.py: GeventDeque (a collections.deque wrapped    *)
(* with a gevent Event "notEmpty"), PacketBuffers (a dict of GeventDeques  *)
(* keyed by packet-type name) and the greenlets that pop from the deques.  *)
(*                                                                         *)
(* Scheduling is gevent's: one thread, greenlets switch only where a call  *)
(* yields to the hub (Event.wait() on a cleared event).  Every action      *)
(* below is therefore one run of a greenlet between two yields.            *)
(***************************************************************************)
EXTENDS Integers, Sequences, FiniteSets, TLC

\* ---------------------------------------------------------------- bounds
MaxPush  == 3        \* items (packets) ever constructed, numbered 1..MaxPush
MaxCap   == 2        \* explicit capacities tried by create(): 0..MaxCap
NumTasks == 2        \* greenlets that call pop()/popleft()
MaxExt   == 2        \* longest iterable handed to extend()/extendleft()
MaxSend  == 3        \* sendto() calls made on the CmdAPI socket
MaxWait  == 3        \* largest timeout handed to wait(); polls made without one
MaxDatagrams == 62   \* datagrams received by the telemetry server
MaxBad   == 2        \* of which undecodable

\* ------------------------------------------------------- program constants
DefaultCapacity == 60        \* create(self, name, capacity=60)

Names    == {"A", "B"}       \* packet-type names used as registry keys
QueueNames == {"A"}          \* the name whose deque the greenlets work on
Tasks    == 1..NumTasks
None     == 0                \* Python's None (never an item)
NoBuffer == [absent |-> TRUE]
NoCall   == [op |-> "none"]
Capacities == (0..MaxCap) \cup {DefaultCapacity}

VARIABLES
    buffers,     \* PacketBuffers: name -> NoBuffer or a GeventDeque record
    nextId,      \* identity given to the next GeventDeque object constructed
    nextItem,    \* the next item (packet) to be constructed
    pc,          \* per greenlet: "idle", "waiting", "woken" or "spin"
    call,        \* per greenlet: the timed pop it is inside (its arguments, and
                 \* whether it has yielded in notEmpty.wait())
    stale,       \* per greenlet: a Timeout it started is still armed
    pushed,      \* per name: the pushes made at one end since the deque was empty
    last,        \* how the call made by the last step ended (NoCall: it returned None)
    net,         \* CmdAPI: the sendto() calls made on its socket, in order
    waiter,      \* the call of wait() in progress: its locals and what it has done
    listener     \* Instrument: the UdpTelemetryServer it started, or NoListener

\* what the deques and the registry never touch
aux  == <<net, waiter, listener>>
vars == <<buffers, nextId, nextItem, pc, call, stale, pushed, last, net, waiter, listener>>

\* ------------------------------------------------ collections.deque(maxlen)
Min(a, b) == IF a < b THEN a ELSE b

RECURSIVE Reverse(_)
Reverse(s) == IF s = <<>> THEN <<>> ELSE Append(Reverse(Tail(s)), Head(s))

\* the last n elements of s (all of s when it has fewer)
LastN(s, n) == SubSeq(s, Len(s) - Min(n, Len(s)) + 1, Len(s))

\* the first n elements of s (all of s when it has fewer)
FirstN(s, n) == SubSeq(s, 1, Min(n, Len(s)))

\* an append that trims at the end it has just added to
DequeAppend_TrimsRight(d, maxlen, x) == FirstN(Append(d, x), maxlen)

\* deque.append(x): add on the right, then trim from the left to maxlen
DequeAppend(d, maxlen, x) == LastN(Append(d, x), maxlen)

\* appendleft that trims at the end the element was added to
DequeAppendLeft_TrimsLeft(d, maxlen, x) == LastN(<<x>> \o d, maxlen)

\* deque.appendleft(x): add on the left, then trim from the right to maxlen
DequeAppendLeft(d, maxlen, x) == FirstN(<<x>> \o d, maxlen)

\* deque.extend(xs): append each element of xs in turn
RECURSIVE DequeExtend(_, _, _)
DequeExtend(d, maxlen, xs) ==
    IF xs = <<>> THEN d
    ELSE DequeExtend(DequeAppend(d, maxlen, Head(xs)), maxlen, Tail(xs))

\* deque.extendleft(xs): appendleft each element of xs in turn
RECURSIVE DequeExtendLeft(_, _, _)
DequeExtendLeft(d, maxlen, xs) ==
    IF xs = <<>> THEN d
    ELSE DequeExtendLeft(DequeAppendLeft(d, maxlen, Head(xs)), maxlen, Tail(xs))

\* deque.rotate(1): d.appendleft(d.pop()); nothing on an empty deque
RotateRight1(d) ==
    IF d = <<>> THEN d ELSE <<d[Len(d)]>> \o SubSeq(d, 1, Len(d) - 1)

\* deque.rotate(-1): d.append(d.popleft()); nothing on an empty deque
RotateLeft1(d) ==
    IF d = <<>> THEN d ELSE Append(Tail(d), Head(d))

\* deque.rotate(n)
RECURSIVE DequeRotate(_, _)
DequeRotate(d, n) ==
    IF n = 0 THEN d
    ELSE IF n > 0 THEN DequeRotate(RotateRight1(d), n - 1)
    ELSE DequeRotate(RotateLeft1(d), n + 1)

\* a pop that takes the element at the other end
DequeEnd_OtherEnd(d, left) == IF left THEN d[Len(d)] ELSE d[1]

\* deque.popleft() / deque.pop(): the element taken and what is left
DequeEnd(d, left) == IF left THEN d[1] ELSE d[Len(d)]
DequeRest(d, left) == IF left THEN Tail(d) ELSE SubSeq(d, 1, Len(d) - 1)

\* ------------------------------------------------------------- GeventDeque
\* GeventDeque(maxlen=capacity): an empty deque, notEmpty cleared
NewGeventDeque(id, capacity) ==
    [id |-> id, maxlen |-> capacity, deque |-> <<>>, notEmpty |-> FALSE]

Present(n) == buffers[n] # NoBuffer

\* a greenlet spinning in "while True: self.notEmpty.wait()" never yields, so
\* no other greenlet (and no timer) runs again
Hung == \E t \in Tasks : pc[t] = "spin"

\* the items nextItem, nextItem+1, ... handed to a call as an iterable of k
Fresh(k) == [i \in 1..k |-> nextItem + i - 1]

\* Event.set(): every greenlet blocked in notEmpty.wait() on this deque is
\* scheduled to run again
Notify(n) ==
    [t \in Tasks |-> IF pc[t] = "waiting" /\ call[t].name = n
                     THEN "woken" ELSE pc[t]]

\* the record of pushes made at one end
NoPushes == [side |-> "none", items |-> <<>>]
Mixed    == [side |-> "mixed", items |-> <<>>]
PushedAt(n, side, xs) ==
    IF pushed[n].side \in {"none", side}
    THEN [side |-> side, items |-> pushed[n].items \o xs]
    ELSE Mixed

IdleCall == [name |-> "A", left |-> FALSE, waited |-> FALSE]
\* how a call ended: kind is "return" or the exception raised; item is the
\* value returned or, for an exception out of _pop, its local variable item
Ended(op, t, n, kind, item) ==
    [op |-> op, task |-> t, name |-> n, kind |-> kind, item |-> item]

NoWait     == [pc |-> "none"]
NoListener == [started |-> FALSE]

Init ==
    /\ buffers  = [n \in Names |-> NoBuffer]
    /\ nextId   = 1
    /\ nextItem = 1
    /\ pc       = [t \in Tasks |-> "idle"]
    /\ call     = [t \in Tasks |-> IdleCall]
    /\ stale    = [t \in Tasks |-> FALSE]
    /\ pushed   = [n \in Names |-> NoPushes]
    /\ last     = NoCall
    /\ net      = <<>>
    /\ waiter   = NoWait
    /\ listener = NoListener

\* GeventDeque.append(item)
append(n) ==
    /\ ~Hung /\ Present(n) /\ nextItem <= MaxPush
    /\ buffers' = [buffers EXCEPT
           ![n].deque    = DequeAppend(@, buffers[n].maxlen, nextItem),
           ![n].notEmpty = TRUE]
    /\ pc'       = Notify(n)
    /\ nextItem' = nextItem + 1
    /\ pushed'   = [pushed EXCEPT ![n] = PushedAt(n, "R", <<nextItem>>)]
    /\ last' = NoCall
    /\ UNCHANGED <<nextId, call, stale>>
    /\ UNCHANGED aux

\* GeventDeque.appendleft(item)
appendleft(n) ==
    /\ ~Hung /\ Present(n) /\ nextItem <= MaxPush
    /\ buffers' = [buffers EXCEPT
           ![n].deque    = DequeAppendLeft(@, buffers[n].maxlen, nextItem),
           ![n].notEmpty = TRUE]
    /\ pc'       = Notify(n)
    /\ nextItem' = nextItem + 1
    /\ pushed'   = [pushed EXCEPT ![n] = PushedAt(n, "L", <<nextItem>>)]
    /\ last' = NoCall
    /\ UNCHANGED <<nextId, call, stale>>
    /\ UNCHANGED aux

\* GeventDeque.extend(iterable)
extend(n, k) ==
    /\ ~Hung /\ Present(n) /\ nextItem + k - 1 <= MaxPush
    /\ LET d == DequeExtend(buffers[n].deque, buffers[n].maxlen, Fresh(k))
       IN /\ buffers' = [buffers EXCEPT
                 ![n].deque    = d,
                 ![n].notEmpty = IF Len(d) > 0 THEN TRUE ELSE @]
          /\ pc' = IF Len(d) > 0 THEN Notify(n) ELSE pc
    /\ nextItem' = nextItem + k
    /\ pushed'   = [pushed EXCEPT ![n] = PushedAt(n, "R", Fresh(k))]
    /\ last' = NoCall
    /\ UNCHANGED <<nextId, call, stale>>
    /\ UNCHANGED aux

\* GeventDeque.extendleft(iterable)
extendleft(n, k) ==
    /\ ~Hung /\ Present(n) /\ nextItem + k - 1 <= MaxPush
    /\ LET d == DequeExtendLeft(buffers[n].deque, buffers[n].maxlen, Fresh(k))
       IN /\ buffers' = [buffers EXCEPT
                 ![n].deque    = d,
                 ![n].notEmpty = IF Len(d) > 0 THEN TRUE ELSE @]
          /\ pc' = IF Len(d) > 0 THEN Notify(n) ELSE pc
    /\ nextItem' = nextItem + k
    /\ pushed'   = [pushed EXCEPT ![n] = PushedAt(n, "L", Fresh(k))]
    /\ last' = NoCall
    /\ UNCHANGED <<nextId, call, stale>>
    /\ UNCHANGED aux

\* GeventDeque.clear()
clear(n) ==
    /\ ~Hung /\ Present(n)
    /\ buffers' = [buffers EXCEPT ![n].deque = <<>>, ![n].notEmpty = FALSE]
    /\ pushed'  = [pushed EXCEPT ![n] = NoPushes]
    /\ last' = NoCall
    /\ UNCHANGED <<nextId, nextItem, pc, call, stale>>
    /\ UNCHANGED aux

\* GeventDeque.remove: declared as "def remove(item)", without self, so the
\* call d.remove(x) passes two arguments to a function of one and raises
\* TypeError before the body runs
remove(n) ==
    /\ ~Hung /\ Present(n)
    /\ last' = Ended("remove", 0, n, "TypeError", None)
    /\ UNCHANGED <<buffers, nextId, nextItem, pc, call, stale, pushed>>
    /\ UNCHANGED aux

\* GeventDeque.reverse()
reverse(n) ==
    /\ ~Hung /\ Present(n)
    /\ buffers' = [buffers EXCEPT ![n].deque = Reverse(@)]
    /\ pushed'  = [pushed EXCEPT ![n] = Mixed]
    /\ last' = NoCall
    /\ UNCHANGED <<nextId, nextItem, pc, call, stale>>
    /\ UNCHANGED aux

\* GeventDeque.rotate(k)
rotate(n, k) ==
    /\ ~Hung /\ Present(n)
    /\ buffers' = [buffers EXCEPT ![n].deque = DequeRotate(@, k)]
    /\ pushed'  = [pushed EXCEPT ![n] = Mixed]
    /\ last' = NoCall
    /\ UNCHANGED <<nextId, nextItem, pc, call, stale>>
    /\ UNCHANGED aux

\* ---------------------------------------------------------- GeventDeque._pop
\* "if len(deque) == 0: self.notEmpty.clear()", the last statement of _pop
ClearIfEmpty(d, flag) == IF Len(d) = 0 THEN FALSE ELSE flag

\* _pop(block=False, left): take the end element or raise IndexError at once
PopNoWait(t, n, left) ==
    /\ ~Hung /\ pc[t] = "idle" /\ Present(n)
    /\ LET d == buffers[n].deque
       IN IF Len(d) > 0
          THEN /\ buffers' = [buffers EXCEPT
                      ![n].deque    = DequeRest(d, left),
                      ![n].notEmpty = ClearIfEmpty(DequeRest(d, left), @)]
               /\ last' = Ended("nowait", t, n, "return", DequeEnd(d, left))
               /\ pushed' = [pushed EXCEPT ![n] = Mixed]
          ELSE /\ last' = Ended("nowait", t, n, "Empty", None)
               /\ UNCHANGED <<buffers, pushed>>
    /\ UNCHANGED <<nextId, nextItem, pc, call, stale>>
    /\ UNCHANGED aux

\* _pop(block=True, timeout=None, left): the wait loop is nested under
\* "if timeout is not None", so nothing is waited for and nothing is taken;
\* item is still None when the tail of _pop runs
PopBlock(t, n, left) ==
    /\ ~Hung /\ pc[t] = "idle" /\ Present(n)
    /\ buffers' = [buffers EXCEPT
           ![n].notEmpty = ClearIfEmpty(buffers[n].deque, @)]
    /\ last' = Ended("block", t, n, "return", None)
    /\ UNCHANGED <<nextId, nextItem, pc, call, stale, pushed>>
    /\ UNCHANGED aux

\* the body of the loop once notEmpty.wait() has returned with an element in
\* the deque: take it, break, and run the finally clause, whose
\* "timeout.cancel()" is called on the number timeout and raises
\* AttributeError; the Timeout object "timer" is never cancelled
Take(t, n, left) ==
    /\ buffers' = [buffers EXCEPT ![n].deque = DequeRest(@, left)]
    /\ last' = Ended("timed", t, n, "AttributeError", DequeEnd(buffers[n].deque, left))
    /\ pc'     = [pc EXCEPT ![t] = "idle"]
    /\ call'   = [call EXCEPT ![t] = IdleCall]
    /\ stale'  = [stale EXCEPT ![t] = TRUE]
    /\ pushed' = [pushed EXCEPT ![n] = Mixed]

\* notEmpty.wait() on a set event returns without yielding; with an empty
\* deque the loop calls it again at once, forever
Spin(t, n, left) ==
    /\ pc'   = [pc EXCEPT ![t] = "spin"]
    /\ call' = [call EXCEPT ![t] =
           [name |-> n, left |-> left, waited |-> pc[t] = "woken"]]
    /\ last' = NoCall
    /\ UNCHANGED <<buffers, stale, pushed>>

\* notEmpty.wait() on a cleared event yields to the hub
Block(t, n, left) ==
    /\ pc'   = [pc EXCEPT ![t] = "waiting"]
    /\ call' = [call EXCEPT ![t] = [name |-> n, left |-> left, waited |-> TRUE]]
    /\ last' = NoCall
    /\ UNCHANGED <<buffers, stale, pushed>>

\* _pop(block=True, timeout=x, left): start the Timeout and enter the loop
PopTimed(t, n, left) ==
    /\ ~Hung /\ pc[t] = "idle" /\ Present(n)
    /\ IF buffers[n].notEmpty
       THEN IF Len(buffers[n].deque) > 0
            THEN Take(t, n, left) ELSE Spin(t, n, left)
       ELSE Block(t, n, left)
    /\ UNCHANGED <<nextId, nextItem>>
    /\ UNCHANGED aux

\* a greenlet scheduled by Event.set() runs again: wait() returns, the loop
\* tests len(deque) and, finding nothing, calls wait() again
Wake(t) ==
    /\ ~Hung /\ pc[t] = "woken"
    /\ LET n == call[t].name
           left == call[t].left
       IN IF Len(buffers[n].deque) > 0 THEN Take(t, n, left)
          ELSE IF buffers[n].notEmpty THEN Spin(t, n, left)
          ELSE Block(t, n, left)
    /\ UNCHANGED <<nextId, nextItem>>
    /\ UNCHANGED aux

\* the Timeout of the pop the greenlet is inside elapses: IndexError is
\* raised out of notEmpty.wait(), and the finally clause replaces it with the
\* AttributeError of "timeout.cancel()"
TimeoutFires(t) ==
    /\ ~Hung /\ pc[t] \in {"waiting", "woken"}
    /\ last' = Ended("timed", t, call[t].name, "AttributeError", None)
    /\ pc'   = [pc EXCEPT ![t] = "idle"]
    /\ call' = [call EXCEPT ![t] = IdleCall]
    /\ UNCHANGED <<buffers, nextId, nextItem, stale, pushed>>
    /\ UNCHANGED aux

\* a Timeout left armed by an earlier pop elapses and raises its IndexError
\* in the greenlet: outside of any pop when the greenlet is idle, out of
\* notEmpty.wait() (and then through the finally clause) when it is inside
\* a later timed pop, whose own Timeout is then the one left armed
StaleTimerFires(t) ==
    /\ ~Hung /\ stale[t] /\ pc[t] # "spin"
    /\ IF pc[t] = "idle"
       THEN /\ last' = Ended("outside", t, "-", "Empty", None)
            /\ stale' = [stale EXCEPT ![t] = FALSE]
            /\ UNCHANGED <<pc, call>>
       ELSE /\ last' = Ended("timed", t, call[t].name, "AttributeError", None)
            /\ pc'   = [pc EXCEPT ![t] = "idle"]
            /\ call' = [call EXCEPT ![t] = IdleCall]
            /\ UNCHANGED stale
    /\ UNCHANGED <<buffers, nextId, nextItem, pushed>>
    /\ UNCHANGED aux

\* ----------------------------------------------------------- PacketBuffers
\* a create that stores a new GeventDeque whether or not the name is present
create_Overwrites(n, capacity) ==
    /\ ~Hung
    /\ buffers' = [buffers EXCEPT ![n] = NewGeventDeque(nextId, capacity)]
    /\ nextId'  = nextId + 1
    /\ pushed'  = [pushed EXCEPT ![n] = NoPushes]
    /\ last'    = Ended("create", 0, n, "return", ~Present(n))
    /\ UNCHANGED <<nextItem, pc, call, stale>>
    /\ UNCHANGED aux

\* PacketBuffers.create(name, capacity)
create(n, capacity) ==
    /\ ~Hung
    /\ IF ~Present(n)
       THEN /\ buffers' = [buffers EXCEPT ![n] = NewGeventDeque(nextId, capacity)]
            /\ nextId'  = nextId + 1
            /\ pushed'  = [pushed EXCEPT ![n] = NoPushes]
            /\ last' = Ended("create", 0, n, "return", TRUE)
       ELSE /\ last' = Ended("create", 0, n, "return", FALSE)
            /\ UNCHANGED <<buffers, nextId, pushed>>
    /\ UNCHANGED <<nextItem, pc, call, stale>>
    /\ UNCHANGED aux

\* PacketBuffers.insert(name, packet): for an absent name it calls
\* self._create, which PacketBuffers does not define (AttributeError)
insert(n) ==
    /\ ~Hung /\ nextItem <= MaxPush
    /\ IF ~Present(n)
       THEN /\ last' = Ended("insert", 0, n, "AttributeError", nextItem)
            /\ UNCHANGED <<buffers, pc, pushed>>
       ELSE /\ buffers' = [buffers EXCEPT
                   ![n].deque    = DequeAppendLeft(@, buffers[n].maxlen, nextItem),
                   ![n].notEmpty = TRUE]
            /\ pc'      = Notify(n)
            /\ pushed'  = [pushed EXCEPT ![n] = PushedAt(n, "L", <<nextItem>>)]
            /\ last' = Ended("insert", 0, n, "return", nextItem)
    /\ nextItem' = nextItem + 1
    /\ UNCHANGED <<nextId, call, stale>>
    /\ UNCHANGED aux

\* a lookup that stores a default buffer under a missing key (a defaultdict)
getitem_Creates(n) ==
    /\ ~Hung
    /\ IF Present(n)
       THEN /\ last' = Ended("getitem", 0, n, "return", buffers[n].id)
            /\ UNCHANGED <<buffers, nextId>>
       ELSE /\ buffers' = [buffers EXCEPT ![n] = NewGeventDeque(nextId, DefaultCapacity)]
            /\ nextId'  = nextId + 1
            /\ last' = Ended("getitem", 0, n, "return", nextId)
    /\ UNCHANGED <<nextItem, pc, call, stale, pushed>>
    /\ UNCHANGED aux

\* PacketBuffers.__getitem__(key): dict.__getitem__, KeyError on a missing key
getitem(n) ==
    /\ ~Hung
    /\ last' = IF Present(n)
               THEN Ended("getitem", 0, n, "return", buffers[n].id)
               ELSE Ended("getitem", 0, n, "KeyError", None)
    /\ UNCHANGED <<buffers, nextId, nextItem, pc, call, stale, pushed>>
    /\ UNCHANGED aux

\* TlmWrapperAttr.__getattr__(name): TlmWrapper(self._buffers[name]), a view
\* of the deque stored under name; the lookup raises KeyError when there is none
tlmattr(n) ==
    /\ ~Hung
    /\ last' = IF Present(n)
               THEN Ended("tlm", 0, n, "return", buffers[n].id)
               ELSE Ended("tlm", 0, n, "KeyError", None)
    /\ UNCHANGED <<buffers, nextId, nextItem, pc, call, stale, pushed>>
    /\ UNCHANGED aux

\* ------------------------------------------------------------- TlmWrapper
\* deque[i] as Python indexes it: 0 is the left end, -1 the right end
InRange(d, i) == 0 - Len(d) <= i /\ i < Len(d)
DequeIndex(d, i) == IF i >= 0 THEN d[i + 1] ELSE d[Len(d) + i + 1]

\* tlm.Packet.__getattr__(name): the value of field name of packet p
PacketField(p, f) == <<p, f>>
Fields  == {"x", "y"}
Indexes == (0 - 1)..MaxCap

\* a field access that gives None when the buffer is empty
viewgetattr_ReturnsNone(n, f) ==
    /\ ~Hung /\ Present(n)
    /\ last' = IF InRange(buffers[n].deque, 0)
               THEN Ended("field", 0, n, "return", PacketField(DequeIndex(buffers[n].deque, 0), f))
               ELSE Ended("field", 0, n, "return", None)
    /\ UNCHANGED <<buffers, nextId, nextItem, pc, call, stale, pushed>>
    /\ UNCHANGED aux

\* TlmWrapper.__getattr__(name) on the view of the deque stored under n:
\* self._packets[0].__getattr__(name)
viewgetattr(n, f) ==
    /\ ~Hung /\ Present(n)
    /\ last' = IF InRange(buffers[n].deque, 0)
               THEN Ended("field", 0, n, "return", PacketField(DequeIndex(buffers[n].deque, 0), f))
               ELSE Ended("field", 0, n, "IndexError", None)
    /\ UNCHANGED <<buffers, nextId, nextItem, pc, call, stale, pushed>>
    /\ UNCHANGED aux

\* TlmWrapper.__getitem__(index)
viewgetitem(n, i) ==
    /\ ~Hung /\ Present(n)
    /\ last' = IF InRange(buffers[n].deque, i)
               THEN Ended("index", i, n, "return", DequeIndex(buffers[n].deque, i))
               ELSE Ended("index", i, n, "IndexError", None)
    /\ UNCHANGED <<buffers, nextId, nextItem, pc, call, stale, pushed>>
    /\ UNCHANGED aux

\* TlmWrapper.__len__()
viewlen(n) ==
    /\ ~Hung /\ Present(n)
    /\ last' = Ended("len", 0, n, "return", Len(buffers[n].deque))
    /\ UNCHANGED <<buffers, nextId, nextItem, pc, call, stale, pushed>>
    /\ UNCHANGED aux

\* ------------------------------------------------------------------ CmdAPI
\* the command dictionary: the commands it can create and cmdobj.encode()
Commands  == {"NOP", "RESET"}
Encode(c) == <<"bytes of", c>>

\* CmdAPI(cmdport): an int destination stands for ("127.0.0.1", port)
CmdHost == "127.0.0.1"
CmdPort == 3075

\* what self._socket.sendto() can do: succeed, or raise one of the two
\* exceptions send() catches
Transports == {"ok", "socket.error", "IOError"}

\* one call of self._socket.sendto(encoded, (self._host, self._port))
Sendto(c, transport) ==
    [payload |-> Encode(c), host |-> CmdHost, port |-> CmdPort, err |-> transport]

\* a send that transmits whatever validate() says
send_IgnoresValidate(c, valid, transport) ==
    /\ Len(net) < MaxSend
    /\ net'  = Append(net, Sendto(c, transport))
    /\ last' = Ended("send", 0, c, "return", transport = "ok")
    /\ UNCHANGED <<buffers, nextId, nextItem, pc, call, stale, pushed, waiter, listener>>

\* a send that calls sendto() a second time when the first call raised
send_Retries(c, valid, transport) ==
    /\ Len(net) < MaxSend
    /\ IF ~valid
       THEN /\ last' = Ended("send", 0, c, "return", FALSE)
            /\ UNCHANGED net
       ELSE IF transport = "ok"
       THEN /\ net'  = Append(net, Sendto(c, transport))
            /\ last' = Ended("send", 0, c, "return", TRUE)
       ELSE /\ net'  = net \o <<Sendto(c, transport), Sendto(c, "ok")>>
            /\ last' = Ended("send", 0, c, "return", TRUE)
    /\ UNCHANGED <<buffers, nextId, nextItem, pc, call, stale, pushed, waiter, listener>>

\* CmdAPI.send(command): valid is what cmdobj.validate(messages) returns,
\* transport what sendto() does if it is called
send(c, valid, transport) ==
    /\ Len(net) < MaxSend
    /\ IF ~valid
       THEN /\ last' = Ended("send", 0, c, "return", FALSE)
            /\ UNCHANGED net
       ELSE /\ net'  = Append(net, Sendto(c, transport))
            /\ last' = Ended("send", 0, c, "return", transport = "ok")
    /\ UNCHANGED <<buffers, nextId, nextItem, pc, call, stale, pushed, waiter, listener>>

\* ------------------------------------------- UdpTelemetryServer, Instrument
\* Instrument(cmdport=3075, tlmport=3076, defn=None)
TlmPort == 3076
NoDefn  == "(none)"

\* sorted(tlmdict.keys())[0]
SortedNames == <<"A", "B">>
FirstName(tlmdict) ==
    SortedNames[CHOOSE i \in 1..Len(SortedNames) :
                   /\ SortedNames[i] \in tlmdict
                   /\ \A j \in 1..(i - 1) : SortedNames[j] \notin tlmdict]

\* Instrument.__init__: tlmdict is what tlm.getDefaultDict() holds, defn the
\* packet definition given (NoDefn: none).  A new registry gets the buffer of
\* the packet type, the server is given that buffer and started.
Instrument(tlmdict, defn) ==
    /\ ~listener.started
    /\ IF defn = NoDefn /\ tlmdict = {}
       THEN /\ last' = Ended("Instrument", 0, defn, "TypeError", None)
            /\ UNCHANGED <<buffers, nextId, pushed, listener>>
       ELSE LET name == IF defn = NoDefn THEN FirstName(tlmdict) ELSE defn IN
            /\ buffers' = [m \in Names |->
                             IF m = name
                             THEN NewGeventDeque(nextId, DefaultCapacity)
                             ELSE NoBuffer]
            /\ nextId'  = nextId + 1
            /\ pushed'  = [m \in Names |-> NoPushes]
            /\ listener' = [started |-> TRUE, name |-> name, buf |-> nextId,
                            port |-> TlmPort, received |-> 0, bad |-> 0]
            /\ last' = Ended("Instrument", 0, name, "return", nextId)
    /\ UNCHANGED <<nextItem, pc, call, stale, net, waiter>>

\* a server that a failing handler brings down
handle_StopsListener(ok) ==
    /\ listener.started /\ listener.received < MaxDatagrams
    /\ ok \/ listener.bad < MaxBad
    /\ IF ok
       THEN /\ buffers' = [buffers EXCEPT
                  ![listener.name].deque    = DequeAppendLeft(@, buffers[listener.name].maxlen, nextItem),
                  ![listener.name].notEmpty = TRUE]
            /\ pc'       = Notify(listener.name)
            /\ nextItem' = nextItem + 1
            /\ pushed'   = [pushed EXCEPT ![listener.name] = PushedAt(listener.name, "L", <<nextItem>>)]
            /\ listener' = [listener EXCEPT !.received = @ + 1]
            /\ last' = Ended("handle", 0, listener.name, "return", nextItem)
       ELSE /\ listener' = [started |-> FALSE]
            /\ last' = Ended("handle", 0, listener.name, "DecodeError", None)
            /\ UNCHANGED <<buffers, pc, nextItem, pushed>>
    /\ UNCHANGED <<nextId, call, stale, net, waiter>>

\* a handler that puts the packet at the right end of the buffer
handle_AppendsRight(ok) ==
    /\ listener.started /\ listener.received < MaxDatagrams
    /\ ok \/ listener.bad < MaxBad
    /\ IF ok
       THEN /\ buffers' = [buffers EXCEPT
                  ![listener.name].deque    = DequeAppend(@, buffers[listener.name].maxlen, nextItem),
                  ![listener.name].notEmpty = TRUE]
            /\ pc'       = Notify(listener.name)
            /\ nextItem' = nextItem + 1
            /\ pushed'   = [pushed EXCEPT ![listener.name] = PushedAt(listener.name, "R", <<nextItem>>)]
            /\ listener' = [listener EXCEPT !.received = @ + 1]
            /\ last' = Ended("handle", 0, listener.name, "return", nextItem)
       ELSE /\ listener' = [listener EXCEPT !.received = @ + 1, !.bad = @ + 1]
            /\ last' = Ended("handle", 0, listener.name, "DecodeError", None)
            /\ UNCHANGED <<buffers, pc, nextItem, pushed>>
    /\ UNCHANGED <<nextId, call, stale, net, waiter>>

\* UdpTelemetryServer.handle(data, address), run by the server in a greenlet
\* of its own for each datagram: ok says whether tlm.Packet(defn, data) gives
\* a packet or raises.  The packet goes to the left end of the buffer; an
\* exception ends that greenlet only, the server goes on receiving.
handle(ok) ==
    /\ listener.started /\ listener.received < MaxDatagrams
    /\ ok \/ listener.bad < MaxBad
    /\ IF ok
       THEN /\ buffers' = [buffers EXCEPT
                  ![listener.name].deque    = DequeAppendLeft(@, buffers[listener.name].maxlen, nextItem),
                  ![listener.name].notEmpty = TRUE]
            /\ pc'       = Notify(listener.name)
            /\ nextItem' = nextItem + 1
            /\ pushed'   = [pushed EXCEPT ![listener.name] = PushedAt(listener.name, "L", <<nextItem>>)]
            /\ listener' = [listener EXCEPT !.received = @ + 1]
            /\ last' = Ended("handle", 0, listener.name, "return", nextItem)
       ELSE /\ listener' = [listener EXCEPT !.received = @ + 1, !.bad = @ + 1]
            /\ last' = Ended("handle", 0, listener.name, "DecodeError", None)
            /\ UNCHANGED <<buffers, pc, nextItem, pushed>>
    /\ UNCHANGED <<nextId, call, stale, net, waiter>>

\* -------------------------------------------------------------------- wait
\* what evaluating a condition can give: 0 is falsy (False, None, 0, ""),
\* the others are truthy
CondResults == 0..2
Truthy(v)   == v # 0

\* timeout=None: "n == timeout" is never true
NoTimeout == 0 - 1
Timeouts  == (0..MaxWait) \cup {NoTimeout}

\* the conditions handed to wait(): a number, a string to eval() or a callable
\* (evaluated afresh each time round), or any other object (its own value)
Conds ==
    {[kind |-> k, lit |-> 0] : k \in {"numeric", "str", "callable"}}
        \cup {[kind |-> "literal", lit |-> v] : v \in CondResults}

\* wait(cond, timeout): status = False, n = 0; a number is slept on, anything
\* else enters the loop
WaitCall(cond, timeout) ==
    /\ waiter.pc \in {"none", "done"}
    /\ waiter' = [pc |-> IF cond.kind = "numeric" THEN "nap" ELSE "loop",
                  cond |-> cond, timeout |-> timeout, n |-> 0, status |-> 0,
                  evals |-> 0, hits |-> 0, sleeps |-> 0]
    /\ UNCHANGED <<buffers, nextId, nextItem, pc, call, stale, pushed, last, net, listener>>

\* gevent.sleep(cond) is over: status = True, return
WaitNapOver ==
    /\ waiter.pc = "nap"
    /\ waiter' = [waiter EXCEPT !.pc = "done", !.status = 1]
    /\ UNCHANGED <<buffers, nextId, nextItem, pc, call, stale, pushed, last, net, listener>>

\* a loop that evaluates the condition before it looks at the budget
WaitLoop_EvaluatesFirst(v) ==
    /\ waiter.pc = "loop"
    /\ waiter.cond.kind = "literal" => v = waiter.cond.lit
    /\ waiter' =
          IF Truthy(v)
          THEN [waiter EXCEPT !.pc = "done", !.status = v,
                              !.evals = @ + 1, !.hits = @ + 1]
          ELSE IF waiter.n = waiter.timeout
          THEN [waiter EXCEPT !.pc = "done", !.status = 0, !.evals = @ + 1]
          ELSE [waiter EXCEPT !.pc = "sleep", !.status = v,
                              !.evals = @ + 1, !.sleeps = @ + 1]
    /\ UNCHANGED <<buffers, nextId, nextItem, pc, call, stale, pushed, last, net, listener>>

\* a loop that goes on polling after a truthy evaluation
WaitLoop_KeepsPolling(v) ==
    /\ waiter.pc = "loop"
    /\ waiter.cond.kind = "literal" => v = waiter.cond.lit
    /\ waiter' =
          IF waiter.n = waiter.timeout
          THEN [waiter EXCEPT !.pc = "done", !.status = 0]
          ELSE [waiter EXCEPT !.pc = "sleep", !.status = v, !.evals = @ + 1,
                              !.hits = IF Truthy(v) THEN @ + 1 ELSE @,
                              !.sleeps = @ + 1]
    /\ UNCHANGED <<buffers, nextId, nextItem, pc, call, stale, pushed, last, net, listener>>

\* one turn of "while True" up to the break or the sleep: the budget test
\* "n == timeout", then the evaluation of the condition (v is what eval() or
\* the callable gives this time), then "if status: break", then gevent.sleep(1)
WaitLoop(v) ==
    /\ waiter.pc = "loop"
    /\ waiter.cond.kind = "literal" => v = waiter.cond.lit
    /\ waiter' =
          IF waiter.n = waiter.timeout
          THEN [waiter EXCEPT !.pc = "done", !.status = 0]
          ELSE IF Truthy(v)
          THEN [waiter EXCEPT !.pc = "done", !.status = v,
                              !.evals = @ + 1, !.hits = @ + 1]
          ELSE [waiter EXCEPT !.pc = "sleep", !.status = v,
                              !.evals = @ + 1, !.sleeps = @ + 1]
    /\ UNCHANGED <<buffers, nextId, nextItem, pc, call, stale, pushed, last, net, listener>>

\* gevent.sleep(1) is over: n += 1 and round again
WaitSleepOver ==
    /\ waiter.pc = "sleep" /\ waiter.n <= MaxWait
    /\ waiter' = [waiter EXCEPT !.pc = "loop", !.n = @ + 1]
    /\ UNCHANGED <<buffers, nextId, nextItem, pc, call, stale, pushed, last, net, listener>>

Rotations == {-1, 1}

\* one GeventDeque, every operation on it, and the greenlets popping from it
Next ==
    \/ \E n \in QueueNames, c \in Capacities : create(n, c)
    \/ \E n \in QueueNames : insert(n)
    \/ \E n \in QueueNames : append(n)
    \/ \E n \in QueueNames : appendleft(n)
    \/ \E n \in QueueNames, k \in 0..MaxExt : extend(n, k)
    \/ \E n \in QueueNames, k \in 0..MaxExt : extendleft(n, k)
    \/ \E n \in QueueNames : clear(n)
    \/ \E n \in QueueNames : remove(n)
    \/ \E n \in QueueNames : reverse(n)
    \/ \E n \in QueueNames, k \in Rotations : rotate(n, k)
    \/ \E t \in Tasks, n \in QueueNames, left \in BOOLEAN : PopNoWait(t, n, left)
    \/ \E t \in Tasks, n \in QueueNames, left \in BOOLEAN : PopBlock(t, n, left)
    \/ \E t \in Tasks, n \in QueueNames, left \in BOOLEAN : PopTimed(t, n, left)
    \/ \E t \in Tasks : Wake(t)
    \/ \E t \in Tasks : TimeoutFires(t)
    \/ \E t \in Tasks : StaleTimerFires(t)

Spec == Init /\ [][Next]_vars

\* the registry with several packet types: buffers are created, filled by
\* insert() and by the listener's appendleft(), and drained without blocking
NextRegistry ==
    \/ \E n \in Names, c \in Capacities : create(n, c)
    \/ \E n \in Names : insert(n)
    \/ \E n \in Names : appendleft(n)
    \/ \E t \in Tasks, n \in Names, left \in BOOLEAN : PopNoWait(t, n, left)
    \/ \E n \in Names : getitem(n)
    \/ \E n \in Names : tlmattr(n)

SpecRegistry == Init /\ [][NextRegistry]_vars

\* one buffer of the registry, filled at the left end and drained without
\* blocking, and the reads made through its TlmWrapper
NextView ==
    \/ \E n \in QueueNames, c \in Capacities : create(n, c)
    \/ \E n \in QueueNames : insert(n)
    \/ \E n \in QueueNames : appendleft(n)
    \/ \E t \in Tasks, n \in QueueNames, left \in BOOLEAN : PopNoWait(t, n, left)
    \/ \E n \in QueueNames : tlmattr(n)
    \/ \E n \in QueueNames, f \in Fields : viewgetattr(n, f)
    \/ \E n \in QueueNames, i \in Indexes : viewgetitem(n, i)
    \/ \E n \in QueueNames : viewlen(n)

SpecView == Init /\ [][NextView]_vars

\* the command sender on its own
NextCmd ==
    \E c \in Commands, valid \in BOOLEAN, transport \in Transports :
        send(c, valid, transport)

SpecCmd == Init /\ [][NextCmd]_vars

\* one GeventDeque pushed at either end and drained without blocking
NextPush ==
    \/ \E n \in QueueNames, c \in Capacities : create(n, c)
    \/ \E n \in QueueNames : append(n)
    \/ \E n \in QueueNames : appendleft(n)
    \/ \E t \in Tasks, n \in QueueNames, left \in BOOLEAN : PopNoWait(t, n, left)

SpecPush == Init /\ [][NextPush]_vars

\* one buffer of the registry filled at the left end, by insert() and by the
\* listener's appendleft(), and consumed by pop() and popleft() calls that
\* return to their caller: block=False, and block=True without a timeout
NextFifo ==
    \/ \E n \in QueueNames, c \in Capacities : create(n, c)
    \/ \E n \in QueueNames : insert(n)
    \/ \E n \in QueueNames : appendleft(n)
    \/ \E t \in Tasks, n \in QueueNames, left \in BOOLEAN : PopNoWait(t, n, left)
    \/ \E t \in Tasks, n \in QueueNames, left \in BOOLEAN : PopBlock(t, n, left)

SpecFifo == Init /\ [][NextFifo]_vars

\* an Instrument, the datagrams its telemetry server receives and the reads
\* made through the view of its buffer
NextInstrument ==
    \/ \E tlmdict \in SUBSET Names, defn \in Names \cup {NoDefn} : Instrument(tlmdict, defn)
    \/ \E ok \in BOOLEAN : handle(ok)
    \/ \E n \in Names : viewlen(n)
    \/ \E n \in Names : viewgetitem(n, 0)

SpecInstrument == Init /\ [][NextInstrument]_vars

\* calls of wait(), one after the other
NextWait ==
    \/ \E cond \in Conds, timeout \in Timeouts : WaitCall(cond, timeout)
    \/ WaitNapOver
    \/ \E v \in CondResults : WaitLoop(v)
    \/ WaitSleepOver

SpecWait == Init /\ [][NextWait]_vars

\* ------------------------------------------------------------------ claims
Deque(n)  == buffers[n].deque
Maxlen(n) == buffers[n].maxlen

\* C1: a deque with capacity c never holds more than c elements, and once
\* more than c pushes have been made at one end (and nothing else since the
\* deque was empty) it holds exactly the c most recently pushed items in
\* the order they were pushed.
C1_BoundedKeepsNewest ==
    \A n \in Names : Present(n) =>
        /\ Len(Deque(n)) <= Maxlen(n)
        /\ Len(pushed[n].items) > Maxlen(n) =>
              /\ pushed[n].side = "R" =>
                    Deque(n) = LastN(pushed[n].items, Maxlen(n))
              /\ pushed[n].side = "L" =>
                    Reverse(Deque(n)) = LastN(pushed[n].items, Maxlen(n))

C1_Witness ==
    \E n \in Names :
        /\ Present(n) /\ Maxlen(n) = 2
        /\ pushed[n].side = "L" /\ Len(pushed[n].items) = 3
        /\ Deque(n) = <<3, 2>>

\* C2: in every reachable state the notEmpty event of a deque is set if and
\* only if the deque holds at least one element.
\* (Stated for the deques that can hold an element: on one of capacity 0
\* append() sets the event of a deque that stays empty.)
C2_SignalIffNonEmpty ==
    \A n \in Names : (Present(n) /\ Maxlen(n) > 0) =>
        (buffers[n].notEmpty <=> Len(Deque(n)) > 0)

\* C3: a pop with block=True and no timeout returns only an element of the
\* deque, never None.
C3_BlockingPopReturnsElement ==
    (last.op = "block" /\ last.kind = "return") => last.item # None

\* C4: a timed blocking pop that found an element in the deque ends by
\* returning that element, not by raising.
C4_TimedPopReturnsWhatItTook ==
    (last.op = "timed" /\ last.item # None) => last.kind = "return"

\* C5: a timed blocking pop that ends without having taken an element fails
\* with Empty (the IndexError) and with no other kind of failure.
C5_TimeoutRaisesEmpty ==
    (last.op = "timed" /\ last.item = None) => last.kind = "Empty"

\* C6: every value a blocking pop returns is an item that was pushed before,
\* and it has left the deque, so that no other popper can be handed it.
C6_ReturnsPushedItemOnce ==
    (last.op \in {"block", "timed"} /\ last.kind = "return") =>
        /\ last.item \in 1..(nextItem - 1)
        /\ \A n \in Names : Present(n) =>
              \A i \in 1..Len(Deque(n)) : Deque(n)[i] # last.item

\* C7: a popper that blocked on an empty deque and is woken by a push either
\* leaves with an element or goes back to waiting (or times out); it never
\* loops without yielding.  (Stated for the deques that can hold an element.)
C7_BlockedPoppersNeverSpin ==
    \A t \in Tasks :
        (call[t].waited /\ Maxlen(call[t].name) > 0) => pc[t] # "spin"

C9_InsertAlwaysStores ==
    [][\A n \in Names : insert(n) =>
          /\ last'.kind = "return"
          /\ buffers'[n] # NoBuffer
          /\ ~Present(n) => buffers'[n].maxlen = DefaultCapacity
          /\ Len(buffers'[n].deque) > 0
          /\ Head(buffers'[n].deque) = nextItem
      ]_vars

\* C10: create(name, capacity) returns True and adds an empty buffer of the
\* given capacity when the name is absent; when it is present it returns
\* False and changes nothing.  No step removes an entry of the registry or
\* replaces the object stored under a name.
C10_CreateIdempotent ==
    [][/\ \A n \in Names, c \in Capacities :
          (last'.op = "create" /\ create(n, c)) =>
             IF ~Present(n)
             THEN /\ last'.kind = "return" /\ last'.item = TRUE
                  /\ buffers'[n].deque = <<>>
                  /\ buffers'[n].maxlen = c
                  /\ \A m \in Names \ {n} : buffers'[m] = buffers[m]
             ELSE /\ last'.kind = "return" /\ last'.item = FALSE
                  /\ buffers' = buffers
       /\ \A n \in Names : Present(n) =>
             /\ buffers'[n] # NoBuffer
             /\ buffers'[n].id = buffers[n].id
             /\ buffers'[n].maxlen = buffers[n].maxlen
      ]_vars

C10_Witness ==
    /\ last.op = "create" /\ last.item = FALSE
    /\ Present(last.name) /\ Deque(last.name) # <<>>
    /\ \E m \in Names : ~Present(m)

\* C11: looking up a name that was never created, through the registry or
\* through the view accessor, fails with KeyError and creates nothing: the
\* registry is the same after the lookup as before it.  A lookup of a name
\* that is present returns the deque stored under it.
C11_LookupNeverCreates ==
    [][\A n \in Names :
          (last'.op \in {"getitem", "tlm"} /\ (getitem(n) \/ tlmattr(n))) =>
             /\ buffers' = buffers
             /\ IF Present(n)
                THEN last'.kind = "return" /\ last'.item = buffers[n].id
                ELSE last'.kind = "KeyError"
      ]_vars

C11_Witness ==
    /\ last.op = "getitem" /\ last.kind = "KeyError"
    /\ ~Present(last.name)
    /\ \E m \in Names : Present(m) /\ Deque(m) # <<>>

\* C12: a send whose command fails validate() returns False and calls
\* sendto() not at all; a send whose command is valid and whose sendto()
\* succeeds returns True and has made exactly one sendto() call, with the
\* encoded command as payload and the configured (host, port) as address.
C12_SendValidatesThenTransmitsOnce ==
    [][\A c \in Commands, valid \in BOOLEAN :
          (last'.op = "send" /\ send(c, valid, "ok")) =>
             IF valid
             THEN /\ last'.kind = "return" /\ last'.item = TRUE
                  /\ Len(net') = Len(net) + 1
                  /\ SubSeq(net', 1, Len(net)) = net
                  /\ net'[Len(net')].payload = Encode(c)
                  /\ net'[Len(net')].host = CmdHost
                  /\ net'[Len(net')].port = CmdPort
             ELSE /\ last'.kind = "return" /\ last'.item = FALSE
                  /\ net' = net
      ]_vars

C12_Witness ==
    /\ last.op = "send" /\ last.item = FALSE
    /\ Len(net) = 1 /\ net[1].err = "ok" /\ net[1].payload = Encode("RESET")

\* C13: a send whose sendto() raises socket.error or IOError returns False,
\* lets no exception out, and has called sendto() exactly once; no send
\* ever calls sendto() more than once.
C13_TransportFailureIsNotRetried ==
    [][/\ Len(net') <= Len(net) + 1
       /\ \A c \in Commands, transport \in Transports \ {"ok"} :
             (last'.op = "send" /\ send(c, TRUE, transport)) =>
                /\ last'.kind = "return" /\ last'.item = FALSE
                /\ Len(net') = Len(net) + 1
                /\ net'[Len(net')].err = transport
      ]_vars

C13_Witness ==
    /\ last.op = "send" /\ last.kind = "return" /\ last.item = FALSE
    /\ Len(net) = 2 /\ net[1].err = "ok" /\ net[2].err = "socket.error"

\* C14: wait() of a non-numeric condition returns at the first truthy
\* evaluation, with that truthy value, having slept once for each (falsy)
\* evaluation before it; when every evaluation is falsy and the timeout is k
\* it returns False after exactly k evaluations and k sleeps of one unit.
C14_WaitPollsUntilTruthyOrBudget ==
    (waiter.pc \in {"loop", "sleep", "done"} /\ waiter.cond.kind # "numeric") =>
        /\ waiter.pc \in {"loop", "sleep"} => waiter.hits = 0
        /\ (waiter.pc = "done" /\ Truthy(waiter.status)) =>
              /\ waiter.hits = 1
              /\ waiter.sleeps = waiter.evals - 1
        /\ (waiter.pc = "done" /\ ~Truthy(waiter.status)) =>
              /\ waiter.hits = 0
              /\ waiter.timeout # NoTimeout
              /\ waiter.evals = waiter.timeout
              /\ waiter.sleeps = waiter.timeout

C14_Witness ==
    /\ waiter.pc = "done" /\ waiter.cond = [kind |-> "literal", lit |-> 0]
    /\ waiter.timeout = 2 /\ waiter.status = 0
    /\ waiter.evals = 2 /\ waiter.sleeps = 2

\* C20: the budget is tested before each evaluation: wait(cond, 0) of a
\* non-numeric condition returns False with no evaluation and no sleep, also
\* when the condition is truthy, and with a timeout of k the condition is
\* never evaluated more than k times.
C20_BudgetTestedBeforeEvaluation ==
    (waiter.pc \in {"loop", "sleep", "done"} /\ waiter.cond.kind # "numeric"
        /\ waiter.timeout # NoTimeout) =>
        /\ waiter.evals <= waiter.timeout
        /\ (waiter.pc = "done" /\ waiter.timeout = 0) =>
              /\ waiter.status = 0
              /\ waiter.evals = 0
              /\ waiter.sleeps = 0

C20_Witness ==
    /\ waiter.pc = "done" /\ waiter.cond = [kind |-> "literal", lit |-> 1]
    /\ waiter.timeout = 0 /\ waiter.status = 0 /\ waiter.evals = 0

\* C15: the telemetry server handles a datagram by putting the packet decoded
\* from it at index 0 of its buffer and sends nothing; a datagram that cannot
\* be decoded changes no buffer and leaves the server running, so that the
\* datagrams after it are handled in the same way.
C15_HandleInsertsAndSurvivesBadDatagrams ==
    [][/\ listener.started =>
             listener'.started /\ listener'.buf = listener.buf
       /\ \A ok \in BOOLEAN :
             (last'.op = "handle" /\ handle(ok)) =>
                /\ net' = net
                /\ IF ok
                   THEN /\ last'.kind = "return"
                        /\ buffers'[listener.name].deque =
                              FirstN(<<last'.item>> \o buffers[listener.name].deque,
                                     buffers[listener.name].maxlen)
                        /\ buffers'[listener.name].deque[1] = nextItem
                        /\ \A m \in Names \ {listener.name} : buffers'[m] = buffers[m]
                   ELSE buffers' = buffers
      ]_vars

C15_Witness ==
    /\ listener.started /\ listener.bad = 1 /\ listener.received = 2
    /\ last.op = "handle" /\ last.kind = "return"
    /\ Deque(listener.name) = <<last.item>>

\* C16: once an Instrument is constructed the registry holds the buffer of its
\* packet type with the default capacity (60) and the server writes into that
\* very buffer: after n decodable datagrams the view of the type has length
\* min(n, 60), its index 0 is the packet of the latest datagram, and the
\* buffer holds the newest min(n, 60) packets, newest first (the oldest are
\* the ones evicted).
C16_InstrumentFeedsItsBuffer ==
    listener.started =>
        LET T == listener.name
            n == listener.received - listener.bad
        IN  /\ Present(T)
            /\ buffers[T].id = listener.buf
            /\ Maxlen(T) = DefaultCapacity
            /\ Len(Deque(T)) = Min(n, DefaultCapacity)
            /\ \A i \in 1..Len(Deque(T)) : Deque(T)[i] = n + 1 - i
            /\ (last.op = "len" /\ last.name = T) =>
                  last.item = Min(n, DefaultCapacity)
            /\ (last.op = "index" /\ last.name = T) =>
                  IF n = 0 THEN last.kind = "IndexError"
                           ELSE last.kind = "return" /\ last.item = n

C16_Witness ==
    /\ listener.started
    /\ listener.received - listener.bad = DefaultCapacity + 1
    /\ last.op = "len" /\ last.item = DefaultCapacity
    /\ Deque(listener.name)[1] = DefaultCapacity + 1
    /\ Deque(listener.name)[DefaultCapacity] = 2

\* what a push of x at capacity is to do to the deque d, giving d2: one
\* element gone, the one at the other end, the rest in order, x at the
\* insertion end, the length as before
PushedRightAtCapacity(d, d2, x) ==
    d2 = SubSeq(d, 2, Len(d)) \o <<x>> /\ Len(d2) = Len(d)
PushedLeftAtCapacity(d, d2, x) ==
    d2 = <<x>> \o SubSeq(d, 1, Len(d) - 1) /\ Len(d2) = Len(d)

\* C17 as stated: a push onto a queue at capacity evicts exactly the element
\* at the opposite end and puts the new one at the insertion end, the length
\* staying at capacity; a push below capacity evicts nothing.
C17_PushAtCapacityEvictsOppositeEnd ==
    [][\A n \in QueueNames :
          /\ (nextItem' = nextItem + 1 /\ append(n)) =>
                IF Len(Deque(n)) = Maxlen(n)
                THEN PushedRightAtCapacity(Deque(n), buffers'[n].deque, nextItem)
                ELSE buffers'[n].deque = Deque(n) \o <<nextItem>>
          /\ (nextItem' = nextItem + 1 /\ appendleft(n)) =>
                IF Len(Deque(n)) = Maxlen(n)
                THEN PushedLeftAtCapacity(Deque(n), buffers'[n].deque, nextItem)
                ELSE buffers'[n].deque = <<nextItem>> \o Deque(n)
      ]_vars

\* C17 for the capacities it can hold for: with a capacity of at least 1 a
\* push at capacity evicts exactly the element at the opposite end, the new
\* element is at the insertion end and the length stays at capacity, and a
\* push below capacity evicts nothing; a queue of capacity 0 stays empty, the
\* pushed element is not kept.
C17_PushAtCapacityEvictsOppositeEnd_Amended ==
    [][\A n \in QueueNames :
          /\ (nextItem' = nextItem + 1 /\ append(n)) =>
                IF Maxlen(n) = 0
                THEN Deque(n) = <<>> /\ buffers'[n].deque = <<>>
                ELSE IF Len(Deque(n)) = Maxlen(n)
                THEN PushedRightAtCapacity(Deque(n), buffers'[n].deque, nextItem)
                ELSE buffers'[n].deque = Deque(n) \o <<nextItem>>
          /\ (nextItem' = nextItem + 1 /\ appendleft(n)) =>
                IF Maxlen(n) = 0
                THEN Deque(n) = <<>> /\ buffers'[n].deque = <<>>
                ELSE IF Len(Deque(n)) = Maxlen(n)
                THEN PushedLeftAtCapacity(Deque(n), buffers'[n].deque, nextItem)
                ELSE buffers'[n].deque = <<nextItem>> \o Deque(n)
      ]_vars

C17_Witness ==
    /\ Present("A") /\ Maxlen("A") = 2
    /\ pushed["A"] = [side |-> "R", items |-> <<1, 2, 3>>]
    /\ Deque("A") = <<2, 3>>

\* the packets of d that were inserted after p
Newer(d, p) == {j \in 1..Len(d) : d[j] > p}

\* what a read through the view is to do; failure is the error a field
\* access on an empty buffer fails with
ViewReadsFailOrReturn(failure) ==
    \A n \in QueueNames :
       /\ \A f \in Fields :
             (last'.op = "field" /\ viewgetattr(n, f)) =>
                /\ buffers' = buffers
                /\ IF Deque(n) = <<>>
                   THEN last'.kind = failure
                   ELSE /\ last'.kind = "return"
                        /\ last'.item = PacketField(Deque(n)[1], f)
                        /\ Newer(Deque(n), Deque(n)[1]) = {}
       /\ \A i \in Indexes :
             (last'.op = "index" /\ viewgetitem(n, i)) =>
                /\ buffers' = buffers
                /\ IF i >= Len(Deque(n)) \/ i < 0 - Len(Deque(n))
                   THEN last'.kind = "IndexError"
                   ELSE /\ last'.kind = "return"
                        /\ \E j \in 1..Len(Deque(n)) : Deque(n)[j] = last'.item
                        /\ i >= 0 => Cardinality(Newer(Deque(n), last'.item)) = i

\* C18 as stated: field access through the view of an empty buffer fails with
\* NoData and view[i] with i out of range fails with IndexError, the buffer
\* unchanged either way; view[i] in range returns the i-th most recently
\* inserted packet.
C18_ViewAccessFails ==
    [][ViewReadsFailOrReturn("NoData")]_vars

\* C18 with the error the view raises: field access through the view of an
\* empty buffer fails with IndexError, as view[i] with i out of range does,
\* the buffer unchanged either way; view[i] for 0 <= i < length returns the
\* packet that has exactly i more recently inserted packets in the buffer.
C18_ViewAccessFails_Amended ==
    [][ViewReadsFailOrReturn("IndexError")]_vars

C18_Witness ==
    /\ last.op = "field" /\ last.kind = "IndexError"
    /\ Present(last.name) /\ Deque(last.name) = <<>>
    /\ nextItem > 1

\* C19: every exit of a timed blocking pop disarms the timer the pop started:
\* a task that is in no pop has no armed timer of an earlier pop, and Empty
\* is never raised in a task outside of a pop.
C19_TimedPopDisarmsItsTimer ==
    /\ \A t \in Tasks : pc[t] = "idle" => ~stale[t]
    /\ last.op # "outside"

\* the buffer holds its packets newest first
NewestFirst(d) == \A i, j \in 1..Len(d) : i < j => d[i] > d[j]

\* a pop()/popleft() call on the buffer under n that returned to its caller
\* (raised nothing), whatever its mode
PopReturned(n, left) ==
    /\ last'.op \in {"nowait", "block"} /\ last'.kind = "return"
    /\ \E t \in Tasks : PopNoWait(t, n, left) \/ PopBlock(t, n, left)

\* C21: the registry and the listener insert at the left end, so a buffer
\* holds its packets newest first; a popRight that returns on a buffer
\* holding packets removes and returns the packet inserted first of those in
\* the buffer, a popLeft the one inserted last, and an insert that does not
\* overflow the buffer removes nothing.  (Hence the packets that popRight
\* calls return are, in order, the first packets inserted: a prefix of the
\* inserted sequence.)
C21_PopRightIsFifo ==
    [][\A n \in QueueNames : Present(n) =>
          /\ NewestFirst(Deque(n))
          /\ ((last'.op = "insert" /\ insert(n)) \/ (nextItem' = nextItem + 1 /\ appendleft(n))) =>
                (Len(Deque(n)) < Maxlen(n) =>
                    buffers'[n].deque = <<nextItem>> \o Deque(n))
          /\ (Deque(n) # <<>> /\ PopReturned(n, FALSE)) =>
                /\ last'.item = Deque(n)[Len(Deque(n))]
                /\ \A i \in 1..(Len(Deque(n)) - 1) : Deque(n)[i] > last'.item
                /\ buffers'[n].deque = SubSeq(Deque(n), 1, Len(Deque(n)) - 1)
          /\ (Deque(n) # <<>> /\ PopReturned(n, TRUE)) =>
                /\ last'.item = Deque(n)[1]
                /\ \A i \in 2..Len(Deque(n)) : Deque(n)[i] < last'.item
                /\ buffers'[n].deque = SubSeq(Deque(n), 2, Len(Deque(n)))
      ]_vars
====
